---- MODULE Spec2Model ----
(***************************************************************************)
(* Call-center dashboard (src/main.py): a Streamlit script over one SQLite *)
(* table.  Every user interaction re-runs main() from top to bottom for    *)
(* the session that interacted; one action of this model is one such run.  *)
(* Runs of different sessions do not overlap (each is a short synchronous  *)
(* script run).  A button is True only in the run its click triggers, so a *)
(* run sees at most one pressed button.                                    *)
(*                                                                         *)
(* Library behaviour the model relies on: AUTOINCREMENT never reuses an id *)
(* (SQLite); DataFrame.to_sql writes its rows in one transaction that it   *)
(* commits, or rolls back when a row fails (pandas); a DELETE is durable   *)
(* only after conn.commit() (sqlite3); SELECT * returns the table's        *)
(* columns, a frame built from a dict has the dict's columns.              *)
(***************************************************************************)
EXTENDS Integers, Sequences, FiniteSets, TLC

\* ------------------------------------------------------------------ bounds
MaxRows == 6        \* rows the table may hold
MaxId == 9          \* largest id AUTOINCREMENT may hand out
MaxClock == 1       \* last instant of the wall clock
TicksPerDay == 2    \* instants per calendar day

Sessions == {"s1", "s2"}

\* --------------------------------------------------------------- the table
\* column order of CREATE TABLE, which SELECT * returns
Schema ==
  <<"id", "timestamp", "location", "complaint_type", "resolution_time",
    "satisfaction_score", "agent_name", "call_duration", "status">>

\* column order of the dict load_sample_data() and the form build
FrameColumns ==
  <<"timestamp", "location", "complaint_type", "resolution_time",
    "satisfaction_score", "agent_name", "call_duration", "status">>

Row(ts, loc, ct, rt, sc, ag, cd, stt) ==
  [timestamp |-> ts, location |-> loc, complaint_type |-> ct,
   resolution_time |-> rt, satisfaction_score |-> sc, agent_name |-> ag,
   call_duration |-> cd, status |-> stt]

\* a stored row: the inserted columns plus the id the table assigned
WithId(r, i) ==
  [id |-> i, timestamp |-> r.timestamp, location |-> r.location,
   complaint_type |-> r.complaint_type, resolution_time |-> r.resolution_time,
   satisfaction_score |-> r.satisfaction_score, agent_name |-> r.agent_name,
   call_duration |-> r.call_duration, status |-> r.status]

\* the columns of a row other than id
Payload(r) ==
  Row(r.timestamp, r.location, r.complaint_type, r.resolution_time,
      r.satisfaction_score, r.agent_name, r.call_duration, r.status)

Max(a, b) == IF a >= b THEN a ELSE b

load_sample_data(now) ==
  [cols |-> FrameColumns,
   rows |-> << Row(now, "NSW", "Billing", 15, 4, "Agent1", 120, "Resolved"),
               Row(now, "QLD", "Service", 25, 3, "Agent2", 180, "Pending"),
               Row(now, "VIC", "Product", 10, 5, "Agent3", 90, "Resolved") >>]

\* INTEGER PRIMARY KEY AUTOINCREMENT: one more than the largest id the table
\* ever held (sqlite_sequence survives DELETE FROM)
NextRowIdReuse(tbl, sq) ==
  IF Len(tbl) = 0 THEN 1 ELSE tbl[Len(tbl)].id + 1

NextRowId(tbl, sq) ==
  Max(sq, IF Len(tbl) = 0 THEN 0 ELSE tbl[Len(tbl)].id) + 1

RECURSIVE AppendRows(_, _, _, _)
\* INSERT the first n rows of a frame, each taking the next id
AppendRows(tbl, sq, rows, n) ==
  IF n = 0 THEN [tbl |-> tbl, sq |-> sq]
  ELSE LET prev == AppendRows(tbl, sq, rows, n - 1)
           i == NextRowId(prev.tbl, prev.sq)
       IN [tbl |-> Append(prev.tbl, WithId(rows[n], i)), sq |-> i]

Min(a, b) == IF a <= b THEN a ELSE b

\* insert_data when every row is committed as it is written
insert_data_autocommit(tbl, sq, df, failAfter) ==
  IF failAfter < 0
  THEN LET r == AppendRows(tbl, sq, df.rows, Len(df.rows))
       IN [ok |-> TRUE, tbl |-> r.tbl, sq |-> r.sq, unclosed |-> 0]
  ELSE LET r == AppendRows(tbl, sq, df.rows, Min(failAfter, Len(df.rows)))
       IN [ok |-> FALSE, tbl |-> r.tbl, sq |-> r.sq, unclosed |-> 1]

\* insert_data(df): connect, df.to_sql(append), close.  to_sql writes all rows
\* in one transaction: committed when the last row is in, rolled back when a
\* row or the commit fails.  failAfter < 0: no failure; otherwise the number
\* of rows written before the failure.  A failure raises past conn.close().
insert_data(tbl, sq, df, failAfter) ==
  IF failAfter < 0
  THEN LET r == AppendRows(tbl, sq, df.rows, Len(df.rows))
       IN [ok |-> TRUE, tbl |-> r.tbl, sq |-> r.sq, unclosed |-> 0]
  ELSE [ok |-> FALSE, tbl |-> tbl, sq |-> sq, unclosed |-> 1]

\* init_db(): connect, CREATE TABLE IF NOT EXISTS, commit, close.  The CREATE
\* takes effect when it executes; a failure raises past conn.close().
init_db(table, failAt) ==
  CASE failAt = "init_execute" -> [ok |-> FALSE, table |-> table, unclosed |-> 1]
    [] failAt = "init_commit"  -> [ok |-> FALSE, table |-> TRUE, unclosed |-> 1]
    [] OTHER                   -> [ok |-> TRUE, table |-> TRUE, unclosed |-> 0]

\* pd.read_sql('SELECT * FROM complaints'): every row, the table's columns
read_sql(tbl) == [cols |-> Schema, rows |-> tbl]

\* the "Clear All Data" block: DELETE FROM, commit, close.  The DELETE is
\* durable only once the commit succeeds; a failure raises past conn.close().
clear_all(tbl, failAt) ==
  IF failAt \in {"clear_execute", "clear_commit"}
  THEN [ok |-> FALSE, tbl |-> tbl, unclosed |-> 1]
  ELSE [ok |-> TRUE, tbl |-> <<>>, unclosed |-> 0]

\* ------------------------------------------------------------ aggregation
RECURSIVE SumCol(_, _)
SumCol(rows, col) ==
  IF Len(rows) = 0 THEN 0 ELSE rows[1][col] + SumCol(Tail(rows), col)

\* Series.mean(), kept exact as the pair (sum, count); count 0 is NaN
Mean(rows, col) == [sum |-> SumCol(rows, col), n |-> Len(rows)]

Group(rows, a) == SelectSeq(rows, LAMBDA r : r.agent_name = a)

\* number of distinct timestamps of an agent's rows
CasesHandledUnique(rows, a) ==
  Cardinality({ Group(rows, a)[i].timestamp : i \in 1..Len(Group(rows, a)) })

\* 'timestamp': 'count' -- the rows of the group (timestamps are never null)
CasesHandled(rows, a) == Len(Group(rows, a))

\* df.groupby('agent_name').agg(...): one entry per agent_name in the frame
agent_stats(df) ==
  [a \in { df.rows[i].agent_name : i \in 1..Len(df.rows) } |->
     [resolution_time |-> Mean(Group(df.rows, a), "resolution_time"),
      satisfaction_score |-> Mean(Group(df.rows, a), "satisfaction_score"),
      call_duration |-> Mean(Group(df.rows, a), "call_duration"),
      cases_handled |-> CasesHandled(df.rows, a)]]

\* pd.to_datetime(ts).dt.date
DateOf(ts) == ts \div TicksPerDay

\* df.groupby('date').size()
daily_counts(df) ==
  [d \in { DateOf(df.rows[i].timestamp) : i \in 1..Len(df.rows) } |->
     Len(SelectSeq(df.rows, LAMBDA r : DateOf(r.timestamp) = d))]

\* what the Dashboard branch computes from df
Dashboard(df) ==
  [shown |-> TRUE,
   total |-> Len(df.rows),
   resolution_time |-> Mean(df.rows, "resolution_time"),
   satisfaction_score |-> Mean(df.rows, "satisfaction_score"),
   call_duration |-> Mean(df.rows, "call_duration"),
   agent_stats |-> agent_stats(df),
   daily_counts |-> daily_counts(df)]

NoDashboard ==
  [shown |-> FALSE, total |-> 0,
   resolution_time |-> [sum |-> 0, n |-> 0],
   satisfaction_score |-> [sum |-> 0, n |-> 0],
   call_duration |-> [sum |-> 0, n |-> 0],
   agent_stats |-> <<>>, daily_counts |-> <<>>]

\* ------------------------------------------------------------------ export
Cells(df) ==
  [i \in 1..Len(df.rows) |-> [j \in 1..Len(df.cols) |-> df.rows[i][df.cols[j]]]]

\* df.to_csv(index=False): the frame's columns as header, one line per row
to_csv(df) ==
  [made |-> TRUE, format |-> "CSV", sheet |-> "", header |-> df.cols,
   rows |-> Cells(df)]

\* to_excel(df): one sheet "Complaints", same header and rows
to_excel(df) ==
  [made |-> TRUE, format |-> "Excel", sheet |-> "Complaints",
   header |-> df.cols, rows |-> Cells(df)]

NoExport ==
  [made |-> FALSE, format |-> "", sheet |-> "", header |-> <<>>, rows |-> <<>>]

\* ----------------------------------------------------------------- widgets
Menus == {"Dashboard", "Add New Complaint", "Data Export", "Database Management"}
StatusOptions == {"Resolved", "Pending", "Escalated"}
AgentFilterOptions == {"Agent1", "Agent2", "Agent3"}
Locations == {"NSW", "QLD", "VIC", "WA", "SA", "TAS", "NT", "ACT"}
ComplaintTypes == {"Billing", "Service", "Product", "Technical", "Other"}
Agents == {"Agent1", "Agent2", "Agent3", "Agent4", "Agent5"}
AdminPassword == "admin123"

\* a number_input without a lower bound
NumberInputNoMin(v, lo, hi) == v <= hi

\* st.number_input(min_value=lo, max_value=hi) only yields values in lo..hi
NumberInput(v, lo, hi) == lo <= v /\ v <= hi

\* st.slider(label, lo, hi, default) only yields values in lo..hi
Slider(v, lo, hi) == lo <= v /\ v <= hi

\* st.selectbox(label, options) only yields one of its options
Selectbox(v, options) == v \in options

\* the values the complaint form can hold when it is submitted
FormAccepts(f) ==
  /\ Selectbox(f.location, Locations)
  /\ Selectbox(f.complaint_type, ComplaintTypes)
  /\ Selectbox(f.agent_name, Agents)
  /\ NumberInput(f.resolution_time, 0, 120)
  /\ Slider(f.satisfaction_score, 1, 5)
  /\ NumberInput(f.call_duration, 0, 3600)
  /\ Selectbox(f.status, StatusOptions)

\* the one-row frame the form builds on submit
new_data(f, now) ==
  [cols |-> FrameColumns,
   rows |-> << Row(now, f.location, f.complaint_type, f.resolution_time,
                   f.satisfaction_score, f.agent_name, f.call_duration,
                   f.status) >>]

\* widget state of a freshly loaded page
DefaultWidgets ==
  [menu |-> "Dashboard", status |-> {}, agent |-> {}, dates |-> <<>>,
   password |-> "", format |-> "Excel"]

\* a widget that a run did not render loses its value
Cleaned(w, rendered) ==
  IF "sidebar" \notin rendered THEN DefaultWidgets
  ELSE [w EXCEPT !.password = IF "password" \in rendered THEN @ ELSE "",
                 !.format = IF "format" \in rendered THEN @ ELSE "Excel"]

\* ---------------------------------------------------------------- main()
EmptyFrame == [cols |-> <<>>, rows |-> <<>>]

\* len(df) == 0 taken as "three rows or fewer"
NeedsSeedUpToThree(df) == Len(df.rows) <= 3

\* the test of line 68
NeedsSeed(df) == Len(df.rows) = 0

\* the seeding branch without its last line
DfAfterSeedKept(df, sample) == df

\* line 71: the frame of the run becomes the sample frame
DfAfterSeed(df, sample) == sample

FailAfter(fail, point) == IF fail.at = point THEN fail.rows ELSE -1

Payloads(rows) == [i \in 1..Len(rows) |-> Payload(rows[i])]

\* the branch of the selected menu option (lines 73-184); b is the run so far
MainBranch(b, w, click, form, now, fail) ==
  CASE w.menu = "Dashboard" ->
         [b EXCEPT !.view = Dashboard(b.df)]
    [] w.menu = "Add New Complaint" ->
         IF click = "submit"
         THEN LET ins == insert_data(b.tbl, b.sq, new_data(form, now),
                                     FailAfter(fail, "insert"))
              IN IF ins.ok
                 THEN [b EXCEPT !.tbl = ins.tbl, !.sq = ins.sq,
                                !.rendered = @ \cup {"form"},
                                !.committed = @ \o new_data(form, now).rows]
                 ELSE [b EXCEPT !.tbl = ins.tbl, !.sq = ins.sq,
                                !.rendered = @ \cup {"form"},
                                !.unclosed = @ + ins.unclosed,
                                !.outcome = "insert"]
         ELSE [b EXCEPT !.rendered = @ \cup {"form"}]
    [] w.menu = "Data Export" ->
         IF click = "generate"
         THEN [b EXCEPT !.rendered = @ \cup {"format", "generate"},
                        !.export = IF w.format = "Excel" THEN to_excel(b.df)
                                   ELSE to_csv(b.df)]
         ELSE [b EXCEPT !.rendered = @ \cup {"format", "generate"}]
    [] w.menu = "Database Management" ->
         IF w.password = AdminPassword
         THEN IF click = "clear"
              THEN LET c == clear_all(b.tbl, fail.at)
                   IN IF c.ok
                      THEN [b EXCEPT !.tbl = c.tbl, !.cleared = TRUE,
                              !.rendered = @ \cup {"password", "clear", "load"}]
                      ELSE [b EXCEPT !.unclosed = @ + c.unclosed,
                              !.outcome = fail.at,
                              !.rendered = @ \cup {"password", "clear"}]
              ELSE IF click = "load"
              THEN LET ins == insert_data(b.tbl, b.sq, load_sample_data(now),
                                          FailAfter(fail, "load"))
                   IN IF ins.ok
                      THEN [b EXCEPT !.tbl = ins.tbl, !.sq = ins.sq,
                              !.committed = @ \o load_sample_data(now).rows,
                              !.rendered = @ \cup {"password", "clear", "load"}]
                      ELSE [b EXCEPT !.tbl = ins.tbl, !.sq = ins.sq,
                              !.unclosed = @ + ins.unclosed,
                              !.outcome = "load",
                              !.rendered = @ \cup {"password", "clear", "load"}]
              ELSE [b EXCEPT !.rendered = @ \cup {"password", "clear", "load"}]
         ELSE [b EXCEPT !.rendered = @ \cup {"password"}]

\* lines 64-71: the full scan and the seeding of an empty table
MainRead(b, w, click, form, now, fail) ==
  IF fail.at = "read"
  THEN [b EXCEPT !.outcome = "read", !.unclosed = @ + 1]
  ELSE LET df0 == read_sql(b.tbl)
           sample == load_sample_data(now)
           scanned == [b EXCEPT !.read = TRUE, !.scan = df0.rows,
                                !.observedEmpty = (Len(df0.rows) = 0),
                                !.df = df0]
       IN IF NeedsSeed(df0)
          THEN LET ins == insert_data(b.tbl, b.sq, sample,
                                      FailAfter(fail, "seed"))
               IN IF ins.ok
                  THEN MainBranch([scanned EXCEPT
                                     !.tbl = ins.tbl, !.sq = ins.sq,
                                     !.bootstrap = 1,
                                     !.committed = sample.rows,
                                     !.df = DfAfterSeed(df0, sample)],
                                  w, click, form, now, fail)
                  ELSE [scanned EXCEPT !.tbl = ins.tbl, !.sq = ins.sq,
                                       !.bootstrap = 1,
                                       !.unclosed = @ + ins.unclosed,
                                       !.outcome = "seed"]
          ELSE MainBranch(scanned, w, click, form, now, fail)

\* one run of main() for a session whose widgets hold w and whose last click
\* was `click`; `fail` is where, if anywhere, the storage fails in this run
main(tbl, sq, table, w, click, form, now, fail) ==
  LET i == init_db(table, fail.at)
      b == [tbl |-> tbl, sq |-> sq, table |-> i.table,
            menu |-> w.menu, click |-> click, fail |-> fail,
            filter |-> [status |-> w.status, agent |-> w.agent,
                        dates |-> w.dates],
            outcome |-> "ok", rendered |-> {}, read |-> FALSE,
            scan |-> <<>>, observedEmpty |-> FALSE, df |-> EmptyFrame,
            view |-> NoDashboard, export |-> NoExport, bootstrap |-> 0,
            committed |-> <<>>, cleared |-> FALSE, unclosed |-> i.unclosed]
  IN IF ~i.ok
     THEN [b EXCEPT !.outcome = fail.at]
     ELSE MainRead([b EXCEPT !.rendered = {"sidebar"}],
                   w, click, form, now, fail)

\* ------------------------------------------------------------------- state
VARIABLES
  store,        \* committed rows of table complaints, in rowid order
  seq,          \* sqlite_sequence: the largest id the table ever assigned
  tableExists,  \* the table has been created
  clock,        \* datetime.now()
  ui,           \* per session: widget values and the widgets the last run drew
  run,          \* what the last run of main() did and showed
  issued,       \* history: the largest id any stored row has had
  hist          \* history: how the table got its present content

vars == <<store, seq, tableExists, clock, ui, run, issued, hist>>

\* storage failures: where one strikes and, inside to_sql, after how many rows
FailPoints ==
  {"init_execute", "init_commit", "read", "seed", "insert",
   "clear_execute", "clear_commit", "load"}

NoFail == [at |-> "none", rows |-> 0]

Fails ==
  {NoFail}
  \cup [at : {"init_execute", "init_commit", "read",
              "clear_execute", "clear_commit"}, rows : {0}]
  \cup [at : {"seed", "load"}, rows : 0..3]
  \cup [at : {"insert"}, rows : {0, 1}]

\* what a user may try to put in the complaint form
FormAttempts ==
  { [location |-> "WA", complaint_type |-> "Technical", resolution_time |-> 0,
     satisfaction_score |-> 1, agent_name |-> "Agent1", call_duration |-> 3600,
     status |-> "Escalated"],
    [location |-> "NSW", complaint_type |-> "Other", resolution_time |-> -1,
     satisfaction_score |-> 5, agent_name |-> "Agent1", call_duration |-> 3600,
     status |-> "Pending"],
    [location |-> "NSW", complaint_type |-> "Other", resolution_time |-> 120,
     satisfaction_score |-> 6, agent_name |-> "Agent1", call_duration |-> 3600,
     status |-> "Pending"],
    [location |-> "WA", complaint_type |-> "Technical", resolution_time |-> 0,
     satisfaction_score |-> 0, agent_name |-> "Agent4", call_duration |-> 0,
     status |-> "Escalated"],
    [location |-> "WA", complaint_type |-> "Technical", resolution_time |-> 0,
     satisfaction_score |-> 1, agent_name |-> "Agent4", call_duration |-> -1,
     status |-> "Escalated"],
    [location |-> "WA", complaint_type |-> "Technical", resolution_time |-> 0,
     satisfaction_score |-> 1, agent_name |-> "Agent4", call_duration |-> 0,
     status |-> "Closed"] }

NoForm == CHOOSE f \in FormAttempts : FormAccepts(f)

\* the filter settings a user picks in the sidebar
FilterChoices ==
  { [status |-> {}, agent |-> {}, dates |-> <<>>],
    [status |-> {"Resolved"}, agent |-> {"Agent1", "Agent3"},
     dates |-> <<0, 0>>] }

PasswordAttempts == {"", "admin", AdminPassword}

MaxIdOf(tbl) == IF Len(tbl) = 0 THEN 0 ELSE tbl[Len(tbl)].id

\* how the table got its content, after a run r
HistAfter(r) ==
  IF r.cleared THEN "cleared"
  ELSE IF r.tbl = store THEN hist
  ELSE IF r.bootstrap = 1 /\ Len(r.committed) = 3 THEN "seeded"
  ELSE "other"

\* before any run
NoRun ==
  [tbl |-> <<>>, sq |-> 0, table |-> FALSE, menu |-> "none", click |-> "none",
   fail |-> NoFail, filter |-> [status |-> {}, agent |-> {}, dates |-> <<>>],
   outcome |-> "ok", rendered |-> {}, read |-> FALSE, scan |-> <<>>,
   observedEmpty |-> FALSE, df |-> EmptyFrame, view |-> NoDashboard,
   export |-> NoExport, bootstrap |-> 0, committed |-> <<>>,
   cleared |-> FALSE, unclosed |-> 0]

Init ==
  /\ store = <<>>
  /\ seq = 0
  /\ tableExists = FALSE
  /\ clock = 0
  /\ ui = [s \in Sessions |-> [w |-> DefaultWidgets, rendered |-> {}]]
  /\ run = NoRun
  /\ issued = 0
  /\ hist = "new"

\* session s re-runs main() with widget values w after the click `click`
Rerun(s, w, click, form, fail) ==
  \E r \in {main(store, seq, tableExists, w, click, form, clock, fail)} :
     /\ fail = NoFail \/ r.outcome = fail.at
     /\ Len(r.tbl) <= MaxRows
     /\ r.sq <= MaxId
     /\ store' = r.tbl
     /\ seq' = r.sq
     /\ tableExists' = r.table
     /\ ui' = [ui EXCEPT ![s] = [w |-> Cleaned(w, r.rendered),
                                 rendered |-> r.rendered]]
     /\ run' = r
     /\ issued' = Max(issued, MaxIdOf(r.tbl))
     /\ hist' = HistAfter(r)
     /\ UNCHANGED clock

\* the browser (re)loads the page: a new script run with default widgets
LoadPage(s, F) ==
  \E fail \in F : Rerun(s, DefaultWidgets, "none", NoForm, fail)

\* the user picks another option of the sidebar radio
SelectMenu(s, F) ==
  /\ "sidebar" \in ui[s].rendered
  /\ \E m \in Menus \ {ui[s].w.menu}, fail \in F :
       Rerun(s, [ui[s].w EXCEPT !.menu = m], "none", NoForm, fail)

\* the user changes the sidebar filters
SetFilters(s, F) ==
  /\ "sidebar" \in ui[s].rendered
  /\ \E f \in FilterChoices, fail \in F :
       /\ f # [status |-> ui[s].w.status, agent |-> ui[s].w.agent,
               dates |-> ui[s].w.dates]
       /\ Rerun(s, [ui[s].w EXCEPT !.status = f.status, !.agent = f.agent,
                                   !.dates = f.dates],
                "none", NoForm, fail)

\* the user submits the complaint form
SubmitComplaint(s, F) ==
  /\ "form" \in ui[s].rendered
  /\ \E f \in FormAttempts, fail \in F :
       /\ FormAccepts(f)
       /\ Rerun(s, ui[s].w, "submit", f, fail)

\* the user switches the export format radio
SelectFormat(s, F) ==
  /\ "format" \in ui[s].rendered
  /\ \E x \in {"Excel", "CSV"} \ {ui[s].w.format}, fail \in F :
       Rerun(s, [ui[s].w EXCEPT !.format = x], "none", NoForm, fail)

\* the user presses "Generate Export"
GenerateExport(s, F) ==
  /\ "generate" \in ui[s].rendered
  /\ \E fail \in F : Rerun(s, ui[s].w, "generate", NoForm, fail)

\* the user types into the admin password field
EnterPassword(s, F) ==
  /\ "password" \in ui[s].rendered
  /\ \E p \in PasswordAttempts \ {ui[s].w.password}, fail \in F :
       Rerun(s, [ui[s].w EXCEPT !.password = p], "none", NoForm, fail)

\* the user presses "Clear All Data"
ClearAllData(s, F) ==
  /\ "clear" \in ui[s].rendered
  /\ \E fail \in F : Rerun(s, ui[s].w, "clear", NoForm, fail)

\* the user presses "Load Sample Data"
LoadSampleData(s, F) ==
  /\ "load" \in ui[s].rendered
  /\ \E fail \in F : Rerun(s, ui[s].w, "load", NoForm, fail)

\* time passes
Tick ==
  /\ clock < MaxClock
  /\ clock' = clock + 1
  /\ UNCHANGED <<store, seq, tableExists, ui, run, issued, hist>>

\* one browser session; the storage may fail anywhere
Next ==
  \/ LoadPage("s1", Fails)
  \/ SelectMenu("s1", Fails)
  \/ SetFilters("s1", Fails)
  \/ SubmitComplaint("s1", Fails)
  \/ SelectFormat("s1", Fails)
  \/ GenerateExport("s1", Fails)
  \/ EnterPassword("s1", Fails)
  \/ ClearAllData("s1", Fails)
  \/ LoadSampleData("s1", Fails)
  \/ Tick

Spec == Init /\ [][Next]_vars

\* two browser sessions on the same database, their runs one after another;
\* the storage does not fail
NextTabs ==
  \/ \E s \in Sessions : LoadPage(s, {NoFail})
  \/ \E s \in Sessions : SelectMenu(s, {NoFail})
  \/ \E s \in Sessions : SetFilters(s, {NoFail})
  \/ \E s \in Sessions : SubmitComplaint(s, {NoFail})
  \/ \E s \in Sessions : SelectFormat(s, {NoFail})
  \/ \E s \in Sessions : GenerateExport(s, {NoFail})
  \/ \E s \in Sessions : EnterPassword(s, {NoFail})
  \/ \E s \in Sessions : ClearAllData(s, {NoFail})
  \/ \E s \in Sessions : LoadSampleData(s, {NoFail})
  \/ Tick

SpecTabs == Init /\ [][NextTabs]_vars

\* ================================================================== claims
RunStep == clock' = clock

\* the predicate a FilterSpec stands for: the AND of its present dimensions
Matches(r, f) ==
  /\ f.status = {} \/ r.status \in f.status
  /\ f.agent = {} \/ r.agent_name \in f.agent
  /\ Len(f.dates) < 2
       \/ (f.dates[1] <= DateOf(r.timestamp) /\ DateOf(r.timestamp) <= f.dates[2])

\* C1: the record set the dashboard metrics and the exports are computed from
\* is exactly the stored records that satisfy every present filter dimension.
C1_FilteredSetUsed ==
  (run.outcome = "ok" /\ (run.view.shown \/ run.export.made))
    => Payloads(run.df.rows)
         = Payloads(SelectSeq(store, LAMBDA r : Matches(r, run.filter)))

SampleRows(rows) ==
  /\ Len(rows) = 3
  /\ \A i \in 1..3 :
       [Payload(rows[i]) EXCEPT !.timestamp = 0] = load_sample_data(0).rows[i]

\* C2: the full scan that follows a clear-all returns no rows; a run makes one
\* bootstrap insert exactly when its scan found the table empty; and while
\* nothing else has changed the table since a bootstrap insert, every scan
\* returns exactly the three sample records.
C2_ClearThenSeedOnce ==
  [][(RunStep /\ run'.read) =>
       /\ run'.scan = store
       /\ hist = "cleared" => run'.scan = <<>>
       /\ run'.bootstrap = (IF run'.scan = <<>> THEN 1 ELSE 0)
       /\ hist = "seeded" => SampleRows(run'.scan)]_vars

\* a scan that returned the three sample rows seeded after a clear-all
C2_Witness ==
  /\ hist = "seeded"
  /\ run.read /\ run.bootstrap = 0 /\ SampleRows(run.scan)
  /\ run.scan[1].id > 3

\* C3: the run that handles "Load Sample Data" leaves the table holding the
\* rows it held before plus the three sample rows.
C3_LoadAddsThree ==
  [][(RunStep /\ run'.click = "load" /\ run'.outcome = "ok") =>
       /\ Len(store') = Len(store) + 3
       /\ Payloads(store') = Payloads(store) \o load_sample_data(clock).rows]_vars

IsPrefix(a, b) == Len(a) <= Len(b) /\ SubSeq(b, 1, Len(a)) = a

\* the positions of store' that hold rows inserted by the step
NewRows ==
  IF IsPrefix(store, store') THEN (Len(store) + 1)..Len(store')
  ELSE 1..Len(store')

\* C4: stored ids are pairwise distinct and increase in insertion order, and a
\* newly inserted row has an id larger than any id ever stored before, also
\* across clear-all.
C4_IdsFresh ==
  [][/\ \A i, j \in 1..Len(store') : i < j => store'[i].id < store'[j].id
     /\ \A i \in NewRows : store'[i].id > issued]_vars

\* rows inserted after a clear-all emptied a table that had held rows
C4_Witness == Len(store) > 0 /\ store[1].id > 3 /\ issued = store[Len(store)].id

\* C5: a run changes the table by whole operations only: the rows of every
\* batch whose insert succeeded are all there, a batch that failed part-way
\* left nothing behind, and a clear-all leaves either everything or nothing.
C5_AllOrNothing ==
  [][RunStep =>
       IF run'.cleared THEN store' = <<>>
       ELSE /\ Payloads(store') = Payloads(store) \o run'.committed
            /\ Len(run'.committed) \in {0, 1, 3, 3 + 1, 3 + 3}]_vars

\* a sample batch failed after two rows and the table is as it was
C5_Witness ==
  /\ run.outcome = "load" /\ run.fail.rows = 2
  /\ run.committed = <<>>
  /\ Len(store) = 3

\* C6: every export has the schema's columns, in schema order, as its header
\* and one data row per exported record.
C6_ExportHeader ==
  run.export.made =>
    /\ run.export.header = Schema
    /\ Len(run.export.rows) = Len(run.df.rows)

RECURSIVE SumCases(_, _)
SumCases(st, as) ==
  IF as = {} THEN 0
  ELSE LET a == CHOOSE x \in as : TRUE
       IN st[a].cases_handled + SumCases(st, as \ {a})

\* C7: the per-agent rollup has an entry for exactly the agents that occur in
\* the record set, each with at least one case, and its cases_handled sum to
\* the number of records.
C7_AgentRollup ==
  run.view.shown =>
    LET st == run.view.agent_stats
        rows == run.df.rows
    IN /\ DOMAIN st = { rows[i].agent_name : i \in 1..Len(rows) }
       /\ \A a \in DOMAIN st : st[a].cases_handled > 0
       /\ SumCases(st, DOMAIN st) = Len(rows)

\* a rollup over a set in which one agent has several records
C7_Witness ==
  /\ run.view.shown
  /\ Len(run.df.rows) >= 4
  /\ \E a \in DOMAIN run.view.agent_stats :
       run.view.agent_stats[a].cases_handled >= 2

\* C8: the dashboard never averages over an empty record set.
C8_NoEmptyAverage ==
  run.view.shown =>
    /\ run.view.total > 0
    /\ run.view.resolution_time.n > 0
    /\ run.view.satisfaction_score.n > 0
    /\ run.view.call_duration.n > 0

\* the dashboard shown by a run that found the table empty
C8_Witness == run.view.shown /\ run.observedEmpty /\ run.view.total = 3

\* C9: every stored record has a satisfaction score in 1..5, non-negative
\* resolution time and call duration, and one of the three statuses.
C9_StoredValid ==
  \A i \in 1..Len(store) :
    /\ store[i].satisfaction_score \in 1..5
    /\ store[i].resolution_time >= 0
    /\ store[i].call_duration >= 0
    /\ store[i].status \in {"Resolved", "Pending", "Escalated"}

\* the table holds a submitted complaint next to sample rows
C9_Witness ==
  /\ \E i \in 1..Len(store) : store[i].location = "WA"
  /\ \E i \in 1..Len(store) : store[i].location = "VIC"

\* C10: when a run has ended, every connection its store operations opened has
\* been closed, whether they succeeded or failed.
C10_ConnectionsReleased == run.unclosed = 0

====
